---------------------------- MODULE Spec2Model ----------------------------
(***************************************************************************)
(* Stack items of the VM (IntegerType, BooleanType and their companions),  *)
(* the cycle/depth guard, and the runtime serialize / deserialize service  *)
(* of src/smartcontract/service/runtime.ts.                                *)
(*                                                                         *)
(* A value graph is a heap: a function from node ids to stack items.  A    *)
(* container item holds the ids of its children, so that sharing and       *)
(* cycles are representable and identity is the node id.                   *)
(***************************************************************************)
EXTENDS Integers, Sequences, FiniteSets, TLC

(***************************************************************************)
(* Program constants.  MAX_STRUCT_DEPTH and MAX_BYTEARRAY_SIZE are         *)
(* imported by runtime.ts from vm/types/struct and vm/consts.              *)
(***************************************************************************)
MAX_STRUCT_DEPTH == 10

MAX_BYTEARRAY_SIZE == 1048576

ByteArrayTypeId == 0

BooleanTypeId == 1

IntegerTypeId == 2

ArrayTypeId == 128

StructTypeId == 129

MapTypeId == 130

(***************************************************************************)
(* Bounds of the model.                                                    *)
(***************************************************************************)
\* operands are taken from the first MaxRoots nodes of the heap
MaxRoots == 2

\* a nested chain has up to MAX_STRUCT_DEPTH + ChainExtra wrapping containers
ChainExtra == 2

\* frames the serializer may nest before the engine's call stack overflows
CallStackLimit == 16

(***************************************************************************)
(* Stack items.                                                            *)
(***************************************************************************)
\* every item carries every field, so that any two items can be compared;
\* a variant uses its own: int, bool, bytes, array (Array and Struct: the
\* children in order) or map (a JS Map: the entries <<key, value>> in
\* insertion order, keyed by identity)
Item(type, int, bool, bytes, array, map) ==
  [type |-> type, int |-> int, bool |-> bool, bytes |-> bytes,
   array |-> array, map |-> map]

IntegerType(v) == Item("IntegerType", v, FALSE, <<>>, <<>>, <<>>)

BooleanType(v) == Item("BooleanType", 0, v, <<>>, <<>>, <<>>)

ByteArrayType(v) == Item("ByteArrayType", 0, FALSE, v, <<>>, <<>>)

ArrayType(v) == Item("ArrayType", 0, FALSE, <<>>, v, <<>>)

StructType(v) == Item("StructType", 0, FALSE, <<>>, v, <<>>)

MapType(v) == Item("MapType", 0, FALSE, <<>>, <<>>, v)

InteropType == Item("InteropType", 0, FALSE, <<>>, <<>>, <<>>)

isIntegerType(it) == it.type = "IntegerType"

isBooleanType(it) == it.type = "BooleanType"

isByteArrayType(it) == it.type = "ByteArrayType"

isArrayType(it) == it.type = "ArrayType"

isStructType(it) == it.type = "StructType"

isMapType(it) == it.type = "MapType"

\* outcome of a call that may throw
Ok(v) == [ok |-> TRUE, val |-> v]

Throws == [ok |-> FALSE, val |-> 0]

(***************************************************************************)
(* Integer <-> bytes: minimal two's-complement little-endian.              *)
(***************************************************************************)
RECURSIVE BigIntBytesNonZero(_)
BigIntBytesNonZero(v) ==
  LET low == v % 256
      rest == (v - low) \div 256
  IN  IF (rest = 0 /\ low < 128) \/ (rest = -1 /\ low >= 128)
      THEN <<low>>
      ELSE <<low>> \o BigIntBytesNonZero(rest)

bigIntToBytes(v) == IF v = 0 THEN <<>> ELSE BigIntBytesNonZero(v)

RECURSIVE UnsignedLE(_)
UnsignedLE(b) ==
  IF Len(b) = 0 THEN 0 ELSE b[1] + 256 * UnsignedLE(Tail(b))

RECURSIVE Pow256(_)
Pow256(n) == IF n = 0 THEN 1 ELSE 256 * Pow256(n - 1)

bigIntFromBytes(b) ==
  IF Len(b) = 0 THEN 0
  ELSE IF b[Len(b)] >= 128 THEN UnsignedLE(b) - Pow256(Len(b))
  ELSE UnsignedLE(b)

(***************************************************************************)
(* Coercions.                                                              *)
(***************************************************************************)
\* StackItem.getByteArray
getByteArray(it) ==
  CASE isIntegerType(it) -> Ok(bigIntToBytes(it.int))
    [] isBooleanType(it) -> Ok(IF it.bool THEN <<1>> ELSE <<0>>)
    [] isByteArrayType(it) -> Ok(it.bytes)
    [] OTHER -> Throws

\* StackItem.getBigInteger
getBigInteger(it) ==
  CASE isIntegerType(it) -> Ok(it.int)
    [] isBooleanType(it) -> Ok(IF it.bool THEN 1 ELSE 0)
    [] isByteArrayType(it) ->
         IF Len(it.bytes) > 8 THEN Throws ELSE Ok(bigIntFromBytes(it.bytes))
    [] OTHER -> Throws

(***************************************************************************)
(* equals.  The outcome is "true", "false" or "throws".                    *)
(***************************************************************************)
Undefined == 0

BoolStr(b) == IF b THEN "true" ELSE "false"

\* a faulty variant: the Boolean path (bytes first, no numeric comparison)
IntegerEqualsBytesOnly(h, this, other) ==
  IF this = other THEN "true"
  ELSE IF other = Undefined THEN "false"
  ELSE LET b == getByteArray(h[other])
           tb == getByteArray(h[this])
       IN  IF b.ok THEN BoolStr(b.val = tb.val) ELSE "false"

IntegerEquals(h, this, other) ==
  IF this = other THEN "true"
  ELSE IF other = Undefined THEN "false"
  ELSE LET v == getBigInteger(h[other])
       IN  IF v.ok THEN BoolStr(h[this].int = v.val)
           ELSE LET b == getByteArray(h[other])
                    tb == getByteArray(h[this])
                IN  IF b.ok THEN BoolStr(b.val = tb.val) ELSE "throws"

BooleanEquals(h, this, other) ==
  IF this = other THEN "true"
  ELSE IF other = Undefined THEN "false"
  ELSE LET b == getByteArray(h[other])
           tb == getByteArray(h[this])
       IN  IF b.ok THEN BoolStr(tb.val = b.val) ELSE "false"

(***************************************************************************)
(* The cycle / depth guard.  A result is the returned boolean, the open    *)
(* set (visited) as the call leaves it, and the calls made: each with its  *)
(* node, its depth, the open set it found and left, and what it returned.  *)
(***************************************************************************)
RECURSIVE circularRefAndDepthDetectionInternal(_, _, _, _)
RECURSIVE DetectElems(_, _, _, _, _)

GuardResult(r, visited, calls) ==
  [res |-> r, visited |-> visited, calls |-> calls]

\* the loop over the children: the first violation returns at once
DetectElems(h, elems, i, visited, depth) ==
  IF i > Len(elems) THEN GuardResult(FALSE, visited, {})
  ELSE LET r == circularRefAndDepthDetectionInternal(h, elems[i], visited, depth)
       IN  IF r.res THEN r
           ELSE LET rest == DetectElems(h, elems, i + 1, r.visited, depth)
                IN  GuardResult(rest.res, rest.visited, r.calls \cup rest.calls)

RECURSIVE FlattenEntries(_)
FlattenEntries(mp) ==
  IF Len(mp) = 0 THEN <<>>
  ELSE <<mp[1][1], mp[1][2]>> \o FlattenEntries(Tail(mp))

\* a faulty variant: the container stays in the open set when its subtree finishes
DetectSequenceNoDelete(h, value, visited, depth) ==
  LET a == h[value].array
  IN  IF Len(a) = 0 THEN GuardResult(FALSE, visited, {})
      ELSE IF value \in visited THEN GuardResult(TRUE, visited, {})
      ELSE DetectElems(h, a, 1, visited \cup {value}, depth + 1)

\* the Array branch, and the Struct branch, which is its copy
DetectSequence(h, value, visited, depth) ==
  LET a == h[value].array
  IN  IF Len(a) = 0 THEN GuardResult(FALSE, visited, {})
      ELSE IF value \in visited THEN GuardResult(TRUE, visited, {})
      ELSE LET r == DetectElems(h, a, 1, visited \cup {value}, depth + 1)
           IN  IF r.res THEN r
               ELSE GuardResult(FALSE, r.visited \ {value}, r.calls)

\* a faulty variant: the Map branch is missing, a Map counts as a scalar
DetectMapSkipped(h, value, visited, depth) ==
  GuardResult(FALSE, visited, {})

\* a faulty variant: the Map branch forgets visited.delete(mp)
DetectMapNoDelete(h, value, visited, depth) ==
  IF value \in visited THEN GuardResult(TRUE, visited, {})
  ELSE DetectElems(h, FlattenEntries(h[value].map), 1,
                   visited \cup {value}, depth + 1)

\* the Map branch: no short-circuit for an empty Map, keys and values visited
DetectMap(h, value, visited, depth) ==
  IF value \in visited THEN GuardResult(TRUE, visited, {})
  ELSE LET r == DetectElems(h, FlattenEntries(h[value].map), 1,
                            visited \cup {value}, depth + 1)
       IN  IF r.res THEN r
           ELSE GuardResult(FALSE, r.visited \ {value}, r.calls)

\* a faulty variant: depth >= MAX_STRUCT_DEPTH
DepthExceededOffByOne(depth) == depth >= MAX_STRUCT_DEPTH

DepthExceeded(depth) == depth > MAX_STRUCT_DEPTH

circularRefAndDepthDetectionInternal(h, value, visited, depth) ==
  LET r == IF DepthExceeded(depth) THEN GuardResult(TRUE, visited, {})
           ELSE IF isArrayType(h[value]) \/ isStructType(h[value])
                THEN DetectSequence(h, value, visited, depth)
           ELSE IF isMapType(h[value])
                THEN DetectMap(h, value, visited, depth)
           ELSE GuardResult(FALSE, visited, {})
  IN  GuardResult(r.res, r.visited,
                  r.calls \cup {[node |-> value, depth |-> depth,
                                 before |-> visited, res |-> r.res,
                                 after |-> r.visited]})

circularRefAndDepthDetection(h, value) ==
  circularRefAndDepthDetectionInternal(h, value, {}, 0)

(***************************************************************************)
(* Writer.  A write result is [ok, bytes]; LimitedWriter refuses a write   *)
(* that takes the output past its limit, which aborts the whole call, so   *)
(* the limit is applied to the finished output.                            *)
(***************************************************************************)
Written(bytes) == [ok |-> TRUE, bytes |-> bytes]

WriteError == [ok |-> FALSE, bytes |-> <<>>]

writeVarUint(n) ==
  IF n < 253 THEN <<n>>
  ELSE IF n <= 65535 THEN <<253, n % 256, n \div 256>>
  ELSE <<254, n % 256, (n \div 256) % 256, (n \div 65536) % 256,
         n \div 16777216>>

writeVarBytes(b) == writeVarUint(Len(b)) \o b

LimitedWriter(w) ==
  IF w.ok /\ Len(w.bytes) > MAX_BYTEARRAY_SIZE THEN WriteError ELSE w

(***************************************************************************)
(* Buffer.toString(): UTF-8 decoding to UTF-16 code units, every maximal   *)
(* ill-formed subsequence replaced by U+FFFD.                              *)
(***************************************************************************)
Replacement == 65533

IsCont(b, i, lo, hi) == i <= Len(b) /\ b[i] >= lo /\ b[i] <= hi

\* lower and upper limit of the second byte of a sequence led by b1
SecondLow(b1) == IF b1 = 224 THEN 160 ELSE IF b1 = 240 THEN 144 ELSE 128

SecondHigh(b1) == IF b1 = 237 THEN 159 ELSE IF b1 = 244 THEN 143 ELSE 191

RECURSIVE Utf8Decode(_, _)
Utf8Decode(b, i) ==
  IF i > Len(b) THEN <<>>
  ELSE LET b1 == b[i] IN
    IF b1 < 128 THEN <<b1>> \o Utf8Decode(b, i + 1)
    ELSE IF b1 >= 194 /\ b1 <= 223 THEN
      IF IsCont(b, i + 1, 128, 191)
      THEN <<(b1 - 192) * 64 + (b[i + 1] - 128)>> \o Utf8Decode(b, i + 2)
      ELSE <<Replacement>> \o Utf8Decode(b, i + 1)
    ELSE IF b1 >= 224 /\ b1 <= 239 THEN
      IF ~IsCont(b, i + 1, SecondLow(b1), SecondHigh(b1))
      THEN <<Replacement>> \o Utf8Decode(b, i + 1)
      ELSE IF ~IsCont(b, i + 2, 128, 191)
      THEN <<Replacement>> \o Utf8Decode(b, i + 2)
      ELSE <<(b1 - 224) * 4096 + (b[i + 1] - 128) * 64 + (b[i + 2] - 128)>>
           \o Utf8Decode(b, i + 3)
    ELSE IF b1 >= 240 /\ b1 <= 244 THEN
      IF ~IsCont(b, i + 1, SecondLow(b1), SecondHigh(b1))
      THEN <<Replacement>> \o Utf8Decode(b, i + 1)
      ELSE IF ~IsCont(b, i + 2, 128, 191)
      THEN <<Replacement>> \o Utf8Decode(b, i + 2)
      ELSE IF ~IsCont(b, i + 3, 128, 191)
      THEN <<Replacement>> \o Utf8Decode(b, i + 3)
      ELSE LET cp == (b1 - 240) * 262144 + (b[i + 1] - 128) * 4096
                     + (b[i + 2] - 128) * 64 + (b[i + 3] - 128) - 65536
           IN  <<55296 + (cp \div 1024), 56320 + (cp % 1024)>>
               \o Utf8Decode(b, i + 4)
    ELSE <<Replacement>> \o Utf8Decode(b, i + 1)

BufferToString(b) == Utf8Decode(b, 1)

(***************************************************************************)
(* Array.prototype.sort() without a comparator: ascending by UTF-16 code   *)
(* units.                                                                  *)
(***************************************************************************)
RECURSIVE SeqLess(_, _)
SeqLess(x, y) ==
  IF Len(y) = 0 THEN FALSE
  ELSE IF Len(x) = 0 THEN TRUE
  ELSE IF x[1] # y[1] THEN x[1] < y[1]
  ELSE SeqLess(Tail(x), Tail(y))

RECURSIVE InsertSorted(_, _)
InsertSorted(x, sorted) ==
  IF Len(sorted) = 0 THEN <<x>>
  ELSE IF SeqLess(x, sorted[1]) THEN <<x>> \o sorted
  ELSE <<sorted[1]>> \o InsertSorted(x, Tail(sorted))

RECURSIVE StringSort(_)
StringSort(keys) ==
  IF Len(keys) = 0 THEN <<>>
  ELSE InsertSorted(keys[Len(keys)], StringSort(SubSeq(keys, 1, Len(keys) - 1)))

(***************************************************************************)
(* Serializer.                                                             *)
(***************************************************************************)
RECURSIVE serializeStackItemInternal(_, _, _)
RECURSIVE SerializeElems(_, _, _, _)
RECURSIVE SerializeEntries(_, _, _, _, _, _)
RECURSIVE ScanKeys(_, _, _, _, _)

Append2(w1, w2) ==
  IF w1.ok /\ w2.ok THEN Written(w1.bytes \o w2.bytes) ELSE WriteError

\* for (const v of a) serializeStackItemInternal(v, w)
SerializeElems(h, a, i, frames) ==
  IF i > Len(a) THEN Written(<<>>)
  ELSE LET w == serializeStackItemInternal(h, a[i], frames)
       IN  IF w.ok THEN Append2(w, SerializeElems(h, a, i + 1, frames))
           ELSE WriteError

\* Map.get(key): the value stored under that key object
MapGet(mp, key) ==
  LET i == CHOOSE j \in 1..Len(mp) : mp[j][1] = key IN mp[i][2]

\* the loop over mp.entries() that fills unsortKey and keyMap
ScanKeys(h, mp, i, unsortKey, keyMap) ==
  IF i > Len(mp) THEN [ok |-> TRUE, unsortKey |-> unsortKey, keyMap |-> keyMap]
  ELSE LET k == mp[i][1] IN
    IF isByteArrayType(h[k]) \/ isIntegerType(h[k])
    THEN LET key == BufferToString(getByteArray(h[k]).val)
         IN  IF key = <<>>
             THEN [ok |-> FALSE, unsortKey |-> <<>>, keyMap |-> <<>>]
             ELSE ScanKeys(h, mp, i + 1, Append(unsortKey, key),
                           (key :> k) @@ keyMap)
    ELSE [ok |-> FALSE, unsortKey |-> <<>>, keyMap |-> <<>>]

\* for (const v of unsortKey) { key = keyMap.get(v); write key, mp.get(key) }
SerializeEntries(h, mp, sorted, keyMap, i, frames) ==
  IF i > Len(sorted) THEN Written(<<>>)
  ELSE LET key == keyMap[sorted[i]]
           wk == serializeStackItemInternal(h, key, frames)
       IN  IF ~wk.ok THEN WriteError
           ELSE LET wv == serializeStackItemInternal(h, MapGet(mp, key), frames)
                IN  IF ~wv.ok THEN WriteError
                    ELSE Append2(Append2(wk, wv),
                                 SerializeEntries(h, mp, sorted, keyMap,
                                                  i + 1, frames))

\* the Map branch
SerializeMap(h, item, frames) ==
  LET mp == h[item].map
      scan == ScanKeys(h, mp, 1, <<>>, <<>>)
  IN  IF ~scan.ok THEN WriteError
      ELSE Append2(Written(<<MapTypeId>> \o writeVarUint(Len(mp))),
                   SerializeEntries(h, mp, StringSort(scan.unsortKey),
                                    scan.keyMap, 1, frames))

serializeStackItemInternal(h, item, frames) ==
  LET it == h[item] IN
  IF frames > CallStackLimit THEN WriteError
  ELSE IF isByteArrayType(it)
    THEN Written(<<ByteArrayTypeId>> \o writeVarBytes(getByteArray(it).val))
  ELSE IF isBooleanType(it)
    THEN Written(<<BooleanTypeId, IF it.bool THEN 1 ELSE 0>>)
  ELSE IF isIntegerType(it)
    THEN Written(<<IntegerTypeId>> \o writeVarBytes(getByteArray(it).val))
  ELSE IF isArrayType(it)
    THEN Append2(Written(<<ArrayTypeId>> \o writeVarUint(Len(it.array))),
                 SerializeElems(h, it.array, 1, frames + 1))
  ELSE IF isStructType(it)
    THEN Append2(Written(<<StructTypeId>> \o writeVarUint(Len(it.array))),
                 SerializeElems(h, it.array, 1, frames + 1))
  ELSE IF isMapType(it)
    THEN SerializeMap(h, item, frames + 1)
  ELSE WriteError

serializeStackItem(h, item) ==
  IF circularRefAndDepthDetection(h, item).res THEN WriteError
  ELSE LimitedWriter(serializeStackItemInternal(h, item, 0))

(***************************************************************************)
(* Reader and deserializer.  A read result is [ok, val, pos]: the value    *)
(* read and the position after it.  A decoded item is a tree: a container  *)
(* holds its children themselves, every one a fresh instance.              *)
(***************************************************************************)
ReadOk(v, pos) == [ok |-> TRUE, val |-> v, pos |-> pos]

ReadError == [ok |-> FALSE, val |-> 0, pos |-> 0]

readByte(data, pos) ==
  IF pos > Len(data) THEN ReadError ELSE ReadOk(data[pos], pos + 1)

readVarUInt(data, pos) ==
  LET b == readByte(data, pos) IN
  IF ~b.ok THEN ReadError
  ELSE IF b.val < 253 THEN b
  ELSE LET n == IF b.val = 253 THEN 2 ELSE IF b.val = 254 THEN 4 ELSE 8 IN
    IF pos + n > Len(data) THEN ReadError
    ELSE ReadOk(UnsignedLE(SubSeq(data, pos + 1, pos + n)), pos + n + 1)

readVarBytes(data, pos) ==
  LET n == readVarUInt(data, pos) IN
  IF ~n.ok THEN ReadError
  ELSE IF n.pos + n.val - 1 > Len(data) THEN ReadError
  ELSE ReadOk(SubSeq(data, n.pos, n.pos + n.val - 1), n.pos + n.val)

\* length-prefixed bytes read as a signed 64-bit integer
readInt64(data, pos) ==
  LET b == readVarBytes(data, pos) IN
  IF ~b.ok THEN ReadError
  ELSE IF Len(b.val) > 8 THEN ReadError
  ELSE ReadOk(bigIntFromBytes(b.val), b.pos)

RECURSIVE deserializeStackItemInternal(_, _)
RECURSIVE DeserializeElems(_, _, _, _)
RECURSIVE DeserializeEntries(_, _, _, _)

\* for (i < count) arr.push(deserializeStackItemInternal(r))
DeserializeElems(data, pos, count, arr) ==
  IF count = 0 THEN ReadOk(arr, pos)
  ELSE LET e == deserializeStackItemInternal(data, pos) IN
    IF ~e.ok THEN ReadError
    ELSE DeserializeElems(data, e.pos, count - 1, Append(arr, e.val))

\* for (i < count) m.set(key, value): the keys are fresh objects
DeserializeEntries(data, pos, count, m) ==
  IF count = 0 THEN ReadOk(m, pos)
  ELSE LET k == deserializeStackItemInternal(data, pos) IN
    IF ~k.ok THEN ReadError
    ELSE LET v == deserializeStackItemInternal(data, k.pos) IN
      IF ~v.ok THEN ReadError
      ELSE DeserializeEntries(data, v.pos, count - 1,
                              Append(m, <<k.val, v.val>>))

deserializeStackItemInternal(data, pos) ==
  LET t == readByte(data, pos) IN
  IF ~t.ok THEN ReadError
  ELSE IF t.val = ByteArrayTypeId
    THEN LET b == readVarBytes(data, t.pos)
         IN  IF b.ok THEN ReadOk(ByteArrayType(b.val), b.pos) ELSE ReadError
  ELSE IF t.val = BooleanTypeId
    THEN LET b == readByte(data, t.pos)
         IN  IF b.ok THEN ReadOk(BooleanType(b.val > 0), b.pos) ELSE ReadError
  ELSE IF t.val = IntegerTypeId
    THEN LET b == readInt64(data, t.pos)
         IN  IF b.ok THEN ReadOk(IntegerType(b.val), b.pos) ELSE ReadError
  ELSE IF t.val = ArrayTypeId \/ t.val = StructTypeId
    THEN LET count == readVarUInt(data, t.pos) IN
         IF ~count.ok THEN ReadError
         ELSE LET arr == DeserializeElems(data, count.pos, count.val, <<>>)
              IN  IF ~arr.ok THEN ReadError
                  ELSE IF t.val = StructTypeId
                  THEN ReadOk(StructType(arr.val), arr.pos)
                  ELSE ReadOk(ArrayType(arr.val), arr.pos)
  ELSE IF t.val = MapTypeId
    THEN LET count == readVarUInt(data, t.pos) IN
         IF ~count.ok THEN ReadError
         ELSE LET m == DeserializeEntries(data, count.pos, count.val, <<>>)
              IN  IF m.ok THEN ReadOk(MapType(m.val), m.pos) ELSE ReadError
  ELSE ReadError

deserializeStackItem(data) ==
  LET r == deserializeStackItemInternal(data, 1)
  IN  IF r.ok THEN Ok(r.val) ELSE Throws

(***************************************************************************)
(* The inputs: value graphs and byte strings.                              *)
(***************************************************************************)
\* every graph over three nodes, each a scalar, an Array of up to two
\* children, a Struct of up to one child or a Map of up to one entry
GraphIds == {1, 2, 3}

GraphItems ==
  {IntegerType(1), ArrayType(<<>>), StructType(<<>>), MapType(<<>>)}
  \cup {ArrayType(<<j>>) : j \in GraphIds}
  \cup {ArrayType(<<j, k>>) : j \in GraphIds, k \in GraphIds}
  \cup {StructType(<<j>>) : j \in GraphIds}
  \cup {MapType(<< <<j, k>> >>) : j \in GraphIds, k \in GraphIds}

GraphHeaps ==
  {<<x, y, z>> : x \in GraphItems \ {IntegerType(1)}, y \in GraphItems,
                 z \in GraphItems}

\* len containers of one kind nested in one another around an innermost
\* item; a Map nests through the value of its one entry, whose key is the
\* scalar that follows the innermost item
ChainKinds == {"ArrayType", "StructType", "MapType"}

ChainInner ==
  {ArrayType(<<>>), StructType(<<>>), MapType(<<>>), IntegerType(1),
   ByteArrayType(<<97>>), BooleanType(TRUE)}

ChainLens == 0..(MAX_STRUCT_DEPTH + ChainExtra)

Chain(kind, len, inner) ==
  [i \in 1..(len + 2) |->
     IF i = len + 1 THEN inner
     ELSE IF i = len + 2 THEN ByteArrayType(<<97>>)
     ELSE IF kind = "ArrayType" THEN ArrayType(<<i + 1>>)
     ELSE IF kind = "StructType" THEN StructType(<<i + 1>>)
     ELSE MapType(<< <<len + 2, i + 1>> >>)]

ChainHeaps ==
  {Chain(kind, len, inner) :
     kind \in ChainKinds, len \in ChainLens, inner \in ChainInner}

\* a Map of up to two entries over a pool of scalar keys, beside a second
\* item: the same entries inserted in the opposite order, a one-entry Map,
\* an Array or a scalar
Pool ==
  <<ByteArrayType(<<128>>), ByteArrayType(<<129>>), ByteArrayType(<<97>>),
    IntegerType(97), ByteArrayType(<<98>>), IntegerType(0),
    BooleanType(TRUE), ByteArrayType(<<194, 128>>), ByteArrayType(<<>>)>>

PoolIds == 3..(2 + Len(Pool))

KeyIds == {2} \cup PoolIds

ValueIds == {2, 6}

MapEntries ==
  {<<>>}
  \cup {<< <<k, v>> >> : k \in KeyIds, v \in ValueIds}
  \cup {<< <<q[1], q[2]>>, <<q[3], q[4]>> >> :
          q \in {r \in KeyIds \X ValueIds \X KeyIds \X ValueIds :
                   r[1] # r[3]}}

Reverse(s) == [i \in 1..Len(s) |-> s[Len(s) + 1 - i]]

SecondItems(entries) ==
  {MapType(Reverse(entries)), ArrayType(<<>>), ArrayType(<<6>>),
   IntegerType(1)}
  \cup {MapType(<< <<k, 6>> >>) : k \in PoolIds}

MapHeaps ==
  UNION {{<<MapType(entries), second>> \o Pool :
            second \in SecondItems(entries)} : entries \in MapEntries}

\* byte strings a contract may hand to deserialize: nested containers
\* around a well-formed or a malformed innermost encoding
WireInner ==
  {<<2, 0>>, <<2, 1, 5>>, <<1, 1>>, <<1, 0>>, <<0, 1, 97>>, <<128, 0>>,
   <<129, 0>>, <<130, 0>>, <<>>, <<5>>, <<0, 2, 97>>, <<128, 1>>,
   <<2, 9, 1, 1, 1, 1, 1, 1, 1, 1, 1>>}

RECURSIVE Nest(_, _, _)
Nest(tag, len, inner) ==
  IF len = 0 THEN inner
  ELSE IF tag = MapTypeId
  THEN <<tag, 1, 0, 1, 97>> \o Nest(tag, len - 1, inner)
  ELSE <<tag, 1>> \o Nest(tag, len - 1, inner)

WireInputs ==
  {Nest(tag, len, inner) :
     tag \in {ArrayTypeId, StructTypeId, MapTypeId},
     len \in ChainLens, inner \in WireInner}

\* two operands of equals
EqualsItems ==
  {IntegerType(v) : v \in {-129, -128, -1, 0, 1, 127, 128, 255, 256}}
  \cup {BooleanType(TRUE), BooleanType(FALSE)}
  \cup {ByteArrayType(v) :
          v \in {<<>>, <<0>>, <<1>>, <<1, 0>>, <<255>>, <<128, 0>>,
                 <<127, 255>>, <<1, 0, 0, 0, 0, 0, 0, 0, 0>>}}
  \cup {ArrayType(<<>>), StructType(<<>>), MapType(<<>>), InteropType}

EqualsHeaps == {<<x, y>> : x \in EqualsItems, y \in EqualsItems}

(***************************************************************************)
(* State.                                                                  *)
(***************************************************************************)
VARIABLES
  heap,   \* the value graph
  wire,   \* a byte array a contract has put on the stack
  op,     \* the last operation
  a,      \* its operand (a node), or 0
  b,      \* its second operand (a node or Undefined)
  det,    \* what the guard returned in the last serialize
  buf,    \* what the last serialize wrote
  item,   \* what the last deserialize returned
  eq      \* what the last equals returned

vars == <<heap, wire, op, a, b, det, buf, item, eq>>

NoGuard == GuardResult(FALSE, {}, {})

Roots == {n \in DOMAIN heap : n <= MaxRoots}

Idle ==
  /\ op = "none"
  /\ a = 0
  /\ b = 0
  /\ det = NoGuard
  /\ buf = WriteError
  /\ item = Throws
  /\ eq = "none"

InitGraph ==
  /\ heap \in GraphHeaps \cup ChainHeaps
  /\ wire = <<>>
  /\ Idle

InitCodec ==
  /\ \/ heap \in MapHeaps /\ wire = <<>>
     \/ heap = <<IntegerType(0)>> /\ wire \in WireInputs
  /\ Idle

InitEquals ==
  /\ heap \in EqualsHeaps
  /\ wire = <<>>
  /\ Idle

(***************************************************************************)
(* Operations.                                                             *)
(***************************************************************************)
\* runtimeSerialize: pops an item, pushes its encoding
RuntimeSerialize ==
  \E it \in Roots :
    /\ op' = "runtimeSerialize"
    /\ a' = it
    /\ det' = circularRefAndDepthDetection(heap, it)
    /\ buf' = serializeStackItem(heap, it)
    /\ item' = Throws
    /\ UNCHANGED <<heap, wire, b, eq>>

\* runtimeDeserialize of the bytes the last serialize pushed
DeserializeBuffer ==
  /\ op = "runtimeSerialize"
  /\ buf.ok
  /\ op' = "runtimeDeserialize"
  /\ item' = deserializeStackItem(buf.bytes)
  /\ UNCHANGED <<heap, wire, a, b, det, buf, eq>>

\* runtimeDeserialize of the bytes the contract supplied
DeserializeWire ==
  /\ op = "none"
  /\ op' = "deserializeWire"
  /\ item' = deserializeStackItem(wire)
  /\ UNCHANGED <<heap, wire, a, b, det, buf, eq>>

RuntimeDeserialize == DeserializeBuffer \/ DeserializeWire

EqualsInteger ==
  \E this \in Roots, other \in Roots \cup {Undefined} :
    /\ isIntegerType(heap[this])
    /\ op' = "IntegerType.equals"
    /\ a' = this
    /\ b' = other
    /\ eq' = IntegerEquals(heap, this, other)
    /\ UNCHANGED <<heap, wire, det, buf, item>>

EqualsBoolean ==
  \E this \in Roots, other \in Roots \cup {Undefined} :
    /\ isBooleanType(heap[this])
    /\ op' = "BooleanType.equals"
    /\ a' = this
    /\ b' = other
    /\ eq' = BooleanEquals(heap, this, other)
    /\ UNCHANGED <<heap, wire, det, buf, item>>

NextCodec == RuntimeSerialize \/ RuntimeDeserialize

NextEquals == EqualsInteger \/ EqualsBoolean

SpecGraph == InitGraph /\ [][NextCodec]_vars

SpecCodec == InitCodec /\ [][NextCodec]_vars

SpecEquals == InitEquals /\ [][NextEquals]_vars

(***************************************************************************)
(* Vocabulary of the properties.                                           *)
(***************************************************************************)
IsContainer(it) == isArrayType(it) \/ isStructType(it) \/ isMapType(it)

IsScalar(it) == isIntegerType(it) \/ isBooleanType(it) \/ isByteArrayType(it)

Range(s) == {s[i] : i \in DOMAIN s}

\* the items a container refers to
Children(h, n) ==
  IF isArrayType(h[n]) \/ isStructType(h[n]) THEN Range(h[n].array)
  ELSE IF isMapType(h[n]) THEN Range(FlattenEntries(h[n].map))
  ELSE {}

RECURSIVE Closure(_, _)
Closure(h, seen) ==
  LET more == seen \cup UNION {Children(h, n) : n \in seen}
  IN  IF more = seen THEN seen ELSE Closure(h, more)

\* the items of the value graph rooted at n
Reach(h, n) == Closure(h, {n})

\* some container of the graph rooted at n is reachable from itself
HasCycle(h, n) ==
  \E c \in Reach(h, n) : c \in Closure(h, Children(h, c))

Max(S) == CHOOSE x \in S : \A y \in S : y <= x

\* containers on the longest path from n down (acyclic graphs only)
RECURSIVE NestingDepth(_, _)
NestingDepth(h, n) ==
  IF ~IsContainer(h[n]) THEN 0
  ELSE 1 + Max({0} \cup {NestingDepth(h, c) : c \in Children(h, n)})

\* a key the Map branch accepts: ByteArray or Integer, byte form not empty
ValidKey(it) ==
  (isByteArrayType(it) \/ isIntegerType(it)) /\ getByteArray(it).val # <<>>

KeysOf(mp) == {mp[i][1] : i \in DOMAIN mp}

HasInvalidKey(h, n) ==
  isMapType(h[n]) /\ \E k \in KeysOf(h[n].map) : ~ValidKey(h[k])

\* the value rooted at n as a tree (acyclic graphs only)
RECURSIVE ToTree(_, _)
ToTree(h, n) ==
  IF isArrayType(h[n]) \/ isStructType(h[n])
  THEN [h[n] EXCEPT !.array = [i \in DOMAIN @ |-> ToTree(h, @[i])]]
  ELSE IF isMapType(h[n])
  THEN [h[n] EXCEPT !.map = [i \in DOMAIN @ |->
                               <<ToTree(h, @[i][1]), ToTree(h, @[i][2])>>]]
  ELSE h[n]

\* structural equality of two trees: same variant at every node, same
\* element order for Array and Struct, same key/value pairs for Map
RECURSIVE TreeEq(_, _)
TreeEq(x, y) ==
  /\ x.type = y.type
  /\ x.int = y.int
  /\ x.bool = y.bool
  /\ x.bytes = y.bytes
  /\ Len(x.array) = Len(y.array)
  /\ \A i \in DOMAIN x.array : TreeEq(x.array[i], y.array[i])
  /\ Len(x.map) = Len(y.map)
  /\ \A i \in DOMAIN x.map : \E j \in DOMAIN y.map :
       TreeEq(x.map[i][1], y.map[j][1]) /\ TreeEq(x.map[i][2], y.map[j][2])
  /\ \A j \in DOMAIN y.map : \E i \in DOMAIN x.map :
       TreeEq(x.map[i][1], y.map[j][1]) /\ TreeEq(x.map[i][2], y.map[j][2])

\* the deepest item of a tree, the root at depth 0
RECURSIVE TreeItemDepth(_)
TreeItemDepth(t) ==
  Max({0} \cup {1 + TreeItemDepth(t.array[i]) : i \in DOMAIN t.array}
          \cup {1 + TreeItemDepth(t.map[i][1]) : i \in DOMAIN t.map}
          \cup {1 + TreeItemDepth(t.map[i][2]) : i \in DOMAIN t.map})

Serialized == op = "runtimeSerialize"

RoundTripped == op = "runtimeDeserialize"

\* the heap is a chain of n >= 1 nested Arrays whose innermost Array is
\* empty (empty = TRUE) or holds one scalar
IsArrayChain(n, empty) ==
  IF empty THEN n >= 1 /\ n - 1 \in ChainLens
                /\ heap = Chain("ArrayType", n - 1, ArrayType(<<>>))
  ELSE n >= 1 /\ n \in ChainLens
       /\ \E inner \in {i \in ChainInner : IsScalar(i)} :
            heap = Chain("ArrayType", n, inner)

ArrayCounts == 1..(MAX_STRUCT_DEPTH + ChainExtra + 1)

(***************************************************************************)
(* Properties of the guard (SpecGraph).                                    *)
(***************************************************************************)

\* C3: whenever the serialized value graph holds a container reachable from
\* itself, the guard returns true, serializeStackItem fails without a byte
\* written, and no call of the guard ran deeper than MAX_STRUCT_DEPTH + 1.
C3_CycleRejected ==
  (Serialized /\ HasCycle(heap, a)) =>
    /\ det.res
    /\ ~buf.ok
    /\ buf.bytes = <<>>
    /\ \A c \in det.calls : c.depth <= MAX_STRUCT_DEPTH + 1

\* a Map that is reachable from itself only through its own entry (as its
\* own key or its own value) was rejected
C3_Witness ==
  /\ Serialized
  /\ isMapType(heap[a])
  /\ Len(heap[a].map) = 1
  /\ a \in Range(FlattenEntries(heap[a].map))
  /\ det.res
  /\ ~buf.ok

\* C4 as stated: a chain of MAX_STRUCT_DEPTH + 1 nested Arrays fails and a
\* chain of MAX_STRUCT_DEPTH nested Arrays succeeds, whether the innermost
\* Array is empty or holds a scalar.
C4_Original ==
  \A n \in ArrayCounts, empty \in BOOLEAN :
    (Serialized /\ a = 1 /\ IsArrayChain(n, empty)) =>
      /\ (n = MAX_STRUCT_DEPTH + 1 => ~buf.ok)
      /\ (n = MAX_STRUCT_DEPTH => buf.ok)

\* C4 amended: a chain of n nested Arrays whose innermost Array holds a
\* scalar serializes iff n <= MAX_STRUCT_DEPTH; one whose innermost Array is
\* empty serializes iff n <= MAX_STRUCT_DEPTH + 1.
C4_DepthBoundary ==
  \A n \in ArrayCounts, empty \in BOOLEAN :
    (Serialized /\ a = 1 /\ IsArrayChain(n, empty)) =>
      (buf.ok <=> (n <= (IF empty THEN MAX_STRUCT_DEPTH + 1
                                  ELSE MAX_STRUCT_DEPTH)))

\* MAX_STRUCT_DEPTH + 1 nested Arrays, the innermost empty, were serialized
C4_Witness ==
  /\ Serialized
  /\ a = 1
  /\ IsArrayChain(MAX_STRUCT_DEPTH + 1, TRUE)
  /\ buf.ok

\* C9: for an acyclic value graph of at most MAX_STRUCT_DEPTH nested
\* containers the guard returns false, also when containers are shared; and
\* whenever the guard returns false the open set is empty again.
C9_NoFalsePositive ==
  /\ (Serialized /\ ~HasCycle(heap, a)
        /\ NestingDepth(heap, a) <= MAX_STRUCT_DEPTH) => ~det.res
  /\ (Serialized /\ ~det.res) => det.visited = {}

\* a non-empty container referenced twice by one parent passed the guard
C9_Witness ==
  /\ Serialized
  /\ ~det.res
  /\ det.visited = {}
  /\ \E c \in DOMAIN heap :
       /\ c # a
       /\ IsContainer(heap[c])
       /\ Children(heap, c) # {}
       /\ \/ isArrayType(heap[a]) /\ heap[a].array = <<c, c>>
          \/ isMapType(heap[a]) /\ heap[a].map = << <<c, c>> >>

\* C10 as stated: every call of the guard on an empty Array, Struct or Map,
\* at whatever depth, returns false and leaves the open set as it found it.
C10_Original ==
  Serialized =>
    \A c \in det.calls :
      (IsContainer(heap[c.node]) /\ Children(heap, c.node) = {}) =>
        (~c.res /\ c.after = c.before)

\* C10 amended: every call of the guard on an empty Array, Struct or Map at
\* a depth of at most MAX_STRUCT_DEPTH returns false and leaves the open set
\* as it found it; deeper, the depth check comes first and returns true.
C10_EmptyContainer ==
  Serialized =>
    \A c \in det.calls :
      (IsContainer(heap[c.node]) /\ Children(heap, c.node) = {}) =>
        IF c.depth <= MAX_STRUCT_DEPTH
        THEN ~c.res /\ c.after = c.before
        ELSE c.res

\* the guard visited an empty Map below the root, with a container open,
\* returned false for it and left the open set as it was
C10_Witness ==
  /\ Serialized
  /\ \E c \in det.calls :
       /\ isMapType(heap[c.node])
       /\ heap[c.node].map = <<>>
       /\ c.depth >= 1
       /\ c.before # {}
       /\ ~c.res
       /\ c.after = c.before

(***************************************************************************)
(* Properties of equals (SpecEquals).                                      *)
(***************************************************************************)

RoundTripInput(h, n) ==
  /\ ~HasCycle(h, n)
  /\ NestingDepth(h, n) <= MAX_STRUCT_DEPTH
  /\ \A m \in Reach(h, n) : h[m].type # "InteropType" /\ ~HasInvalidKey(h, m)

\* C1: a value without Interop, acyclic, of at most MAX_STRUCT_DEPTH nested
\* containers and with valid Map keys serializes, and its encoding
\* deserializes to a structurally equal value.
C1_RoundTrip ==
  /\ (Serialized /\ RoundTripInput(heap, a)) => buf.ok
  /\ (RoundTripped /\ RoundTripInput(heap, a)) =>
       (item.ok /\ TreeEq(ToTree(heap, a), item.val))

\* the entries of two Maps are the same pairs, in whatever order
SamePairs(m1, m2) ==
  Len(m1) = Len(m2) /\ Range(m1) = Range(m2)

\* C2: two Maps holding the same key/value pairs under valid keys, inserted
\* in different orders, serialize to the same bytes.
C2_MapDeterminism ==
  (Serialized /\ a = 1 /\ 2 \in DOMAIN heap
     /\ isMapType(heap[1]) /\ isMapType(heap[2])
     /\ SamePairs(heap[1].map, heap[2].map)
     /\ ~HasInvalidKey(heap, 1)) =>
    buf = serializeStackItem(heap, 2)

\* C5: serializing a value that holds, at any level, a Map with a key that
\* is not a ByteArray or Integer, or whose byte form is empty, fails and
\* returns no bytes.
C5_InvalidKeyRejected ==
  (Serialized /\ \E m \in Reach(heap, a) : HasInvalidKey(heap, m)) =>
    (~buf.ok /\ buf.bytes = <<>>)

\* C6: every value deserializeStackItem returns has no item deeper than
\* MAX_STRUCT_DEPTH below its root, so that it passes the guard.
C6_DecoderDepthBound ==
  (op \in {"runtimeDeserialize", "deserializeWire"} /\ item.ok) =>
    TreeItemDepth(item.val) <= MAX_STRUCT_DEPTH

\* the pairs of a decoded Map are those of the entries, each once
IsPermutationOf(pairs, h, mp) ==
  /\ Len(pairs) = Len(mp)
  /\ \E f \in Permutations(DOMAIN mp) :
       \A i \in DOMAIN mp :
         /\ TreeEq(pairs[i][1], ToTree(h, mp[f[i]][1]))
         /\ TreeEq(pairs[i][2], ToTree(h, mp[f[i]][2]))

\* the keys of a decoded Map ascend by their byte sequences
KeysAscend(pairs) ==
  \A i \in DOMAIN pairs : \A j \in DOMAIN pairs :
    i < j => ~SeqLess(getByteArray(pairs[j][1]).val,
                      getByteArray(pairs[i][1]).val)

\* C8: a Map whose keys are all valid (and whose values are scalars) is
\* written as the Map tag, its count n and n key/value pairs that are a
\* permutation of its entries, ascending by the keys' byte sequences.
C8_CanonicalEntries ==
  (Serialized /\ isMapType(heap[a]) /\ ~HasInvalidKey(heap, a)
     /\ \A i \in DOMAIN heap[a].map : IsScalar(heap[heap[a].map[i][2]])) =>
    /\ buf.ok
    /\ Len(buf.bytes) >= 2
    /\ buf.bytes[1] = MapTypeId
    /\ buf.bytes[2] = Len(heap[a].map)
    /\ LET d == deserializeStackItem(buf.bytes)
       IN  /\ d.ok
           /\ isMapType(d.val)
           /\ IsPermutationOf(d.val.map, heap, heap[a].map)
           /\ KeysAscend(d.val.map)

=============================================================================
